---- MODULE Spec2Model ----
(***************************************************************************)
(* PreBuild (src/build.ts): the YAML -> JSON tree mirror.                  *)
(*                                                                         *)
(* The file system is one function from paths to nodes; it holds both the  *)
(* CONFIG_DIR tree and the DATA_DIR tree, under the script directory.      *)
(* A path is a sequence of names, a name is the sequence of its            *)
(* dot-separated segments ("a.yml" is <<"a","yml">>), and the content of a *)
(* file is a sequence of text tokens.                                      *)
(***************************************************************************)
EXTENDS Integers, Sequences, FiniteSets, TLC

VARIABLES
    fs,             \* the file system: path -> node
    order,          \* the order in which readdirSync reports entries
    phase,          \* "new" | "ready" | "walking" | "done"
    stack,          \* the active processDir calls, innermost first
    processedCount, \* the counter of processYamlToJson
    log,            \* diagnostics of the call in progress (or last finished)
    prevLog,        \* diagnostics of the process() call before that one
    runs,           \* process() calls started
    escaped,        \* an exception left the constructor or process()
    aborted,        \* the current walk was ended by an exception
    visited,        \* source entries the forEach callbacks have handled
    converted,      \* source files converted by the current run
    fsNew,          \* the file system before the constructor ran
    fsStart         \* the file system when the current process() began

vars == <<fs, order, phase, stack, processedCount, log, prevLog, runs,
          escaped, aborted, visited, converted, fsNew, fsStart>>

\* process() calls in one behaviour
MaxRuns == 2

\* JSON.stringify(jsonData, null, 2)
JsonIndent == 2

-----------------------------------------------------------------------------
(* Paths *)

BaseDir == <<>>
CONFIG_DIR == << <<"config">> >>
DATA_DIR == << <<"data">> >>

Join(dir, name) == Append(dir, name)
Parent(p) == SubSeq(p, 1, Len(p) - 1)
Base(p) == p[Len(p)]
IsUnder(p, dir) == Len(p) > Len(dir) /\ SubSeq(p, 1, Len(dir)) = dir

\* entry.name.endsWith('.' + ext)
EndsWith(name, ext) == Len(name) >= 2 /\ name[Len(name)] = ext

IsYamlName(name) == EndsWith(name, "yml") \/ EndsWith(name, "yaml")

\* entry.name.replace(/\.(yml|yaml)$/, '.json')
JsonFileName(name) ==
    IF Len(name) >= 2 /\ name[Len(name)] \in {"yml", "yaml"}
    THEN Append(SubSeq(name, 1, Len(name) - 1), "json")
    ELSE name

-----------------------------------------------------------------------------
(* The fs module *)

Node(kind, mode, content) == [kind |-> kind, mode |-> mode, content |-> content]
EmptyFs == [p \in {} |-> Node("dir", "rw", <<>>)]

existsSync(f, p) == p \in DOMAIN f
IsDir(f, p) == p \in DOMAIN f /\ f[p].kind = "dir"
IsFile(f, p) == p \in DOMAIN f /\ f[p].kind = "file"

\* fs.mkdirSync(p, { recursive: true })
RECURSIVE mkdirSync(_, _)
mkdirSync(f, p) ==
    IF p \in DOMAIN f THEN [ok |-> f[p].kind = "dir", fs |-> f]
    ELSE IF Len(p) = 0 THEN [ok |-> FALSE, fs |-> f]
    ELSE LET up == mkdirSync(f, Parent(p)) IN
         IF ~up.ok \/ up.fs[Parent(p)].mode # "rw"
         THEN [ok |-> FALSE, fs |-> up.fs]
         ELSE [ok |-> TRUE, fs |-> (p :> Node("dir", "rw", <<>>)) @@ up.fs]

\* fs.readFileSync(p, 'utf-8')
readFileSync(f, p) ==
    IF IsFile(f, p) /\ f[p].mode # "none"
    THEN [ok |-> TRUE, text |-> f[p].content]
    ELSE [ok |-> FALSE, text |-> <<>>]

writeFileSyncAppend(f, p, data) ==
    IF ~data.defined \/ ~IsDir(f, Parent(p)) THEN [ok |-> FALSE, fs |-> f]
    ELSE IF p \in DOMAIN f
    THEN IF f[p].kind = "file" /\ f[p].mode = "rw"
         THEN [ok |-> TRUE, fs |-> [f EXCEPT ![p].content = @ \o data.text]]
         ELSE [ok |-> FALSE, fs |-> f]
    ELSE IF f[Parent(p)].mode = "rw"
    THEN [ok |-> TRUE, fs |-> (p :> Node("file", "rw", data.text)) @@ f]
    ELSE [ok |-> FALSE, fs |-> f]
\* fs.writeFileSync(p, data, 'utf-8'); data undefined is a TypeError
writeFileSync(f, p, data) ==
    IF ~data.defined \/ ~IsDir(f, Parent(p)) THEN [ok |-> FALSE, fs |-> f]
    ELSE IF p \in DOMAIN f
    THEN IF f[p].kind = "file" /\ f[p].mode = "rw"
         THEN [ok |-> TRUE, fs |-> [f EXCEPT ![p].content = data.text]]
         ELSE [ok |-> FALSE, fs |-> f]
    ELSE IF f[Parent(p)].mode = "rw"
    THEN [ok |-> TRUE, fs |-> (p :> Node("file", "rw", data.text)) @@ f]
    ELSE [ok |-> FALSE, fs |-> f]

\* The names a directory can hold, in the two orders the platform may report
NameOrder ==
    << <<"a", "json">>, <<"a", "yaml">>, <<"a", "yml">>, <<"b", "txt">>,
       <<"c", "json">>, <<"c", "yaml">>, <<"deep">>, <<"e", "json">>,
       <<"e", "yml">>, <<"l", "yml">>, <<"sub">>, <<"yml">>, <<"z", "json">> >>

Reverse(s) == [i \in 1..Len(s) |-> s[Len(s) + 1 - i]]

Ordered(ord) == IF ord = "asc" THEN NameOrder ELSE Reverse(NameOrder)

\* fs.readdirSync(dir, { withFileTypes: true })
readdirSync(f, dir, ord) ==
    IF IsDir(f, dir) /\ f[dir].mode # "none"
    THEN LET names == SelectSeq(Ordered(ord), LAMBDA n : Join(dir, n) \in DOMAIN f)
         IN  [ok |-> TRUE,
              entries |-> [i \in 1..Len(names) |->
                             [name |-> names[i], kind |-> f[Join(dir, names[i])].kind]]]
    ELSE [ok |-> FALSE, entries |-> <<>>]

-----------------------------------------------------------------------------
(* js-yaml load and JSON.stringify, on token sequences *)

NL == "\n"
SP == " "
Digits == {"0", "1", "2", "3"}

FirstNL(t) ==
    IF \E i \in 1..Len(t) : t[i] = NL
    THEN CHOOSE i \in 1..Len(t) : t[i] = NL /\ \A j \in 1..(i - 1) : t[j] # NL
    ELSE 0

RECURSIVE Lines(_)
Lines(t) ==
    IF t = <<>> THEN <<>>
    ELSE LET k == FirstNL(t) IN
         IF k = 0 THEN <<t>>
         ELSE <<SubSeq(t, 1, k - 1)>> \o Lines(SubSeq(t, k + 1, Len(t)))

\* "key: value"
IsEntryLine(l) == Len(l) = 4 /\ l[2] = ":" /\ l[3] = SP /\ l[1] \notin {"-", ":"}
\* "- value"
IsItemLine(l) == Len(l) = 3 /\ l[1] = "-" /\ l[2] = SP

Scalar(tok) == [t |-> IF tok \in Digits THEN "num" ELSE "str", v |-> tok]

Undefined == [t |-> "undefined", items |-> <<>>]

\* yaml.load(yamlContent): the parsed value, or an exception
load(text) ==
    LET ls == Lines(text) IN
    IF ls = <<>> THEN [ok |-> TRUE, value |-> Undefined]
    ELSE IF \A i \in 1..Len(ls) : IsEntryLine(ls[i])
    THEN IF \E i, j \in 1..Len(ls) : i # j /\ ls[i][1] = ls[j][1]
         THEN [ok |-> FALSE, value |-> Undefined]
         ELSE [ok |-> TRUE,
               value |-> [t |-> "map",
                          items |-> [i \in 1..Len(ls) |->
                                       [key |-> ls[i][1], val |-> Scalar(ls[i][4])]]]]
    ELSE IF \A i \in 1..Len(ls) : IsItemLine(ls[i])
    THEN [ok |-> TRUE,
          value |-> [t |-> "seq",
                     items |-> [i \in 1..Len(ls) |->
                                  [key |-> "", val |-> Scalar(ls[i][3])]]]]
    ELSE [ok |-> FALSE, value |-> Undefined]

Quote(s) == <<"\"", s, "\"">>

ScalarJson(s) == IF s.t = "num" THEN <<s.v>> ELSE Quote(s.v)

Indent(n) == [i \in 1..n |-> SP]

RECURSIVE ItemsJson(_, _, _)
ItemsJson(v, i, n) ==
    IF i > Len(v.items) THEN <<>>
    ELSE Indent(n)
         \o (IF v.t = "map" THEN Quote(v.items[i].key) \o <<":", SP>> ELSE <<>>)
         \o ScalarJson(v.items[i].val)
         \o (IF i < Len(v.items) THEN <<",">> ELSE <<>>)
         \o <<NL>>
         \o ItemsJson(v, i + 1, n)

\* JSON.stringify(jsonData, null, 2)
stringify(v) ==
    IF v.t = "undefined" THEN [defined |-> FALSE, text |-> <<>>]
    ELSE [defined |-> TRUE,
          text |-> <<IF v.t = "map" THEN "{" ELSE "[">> \o <<NL>>
                   \o ItemsJson(v, 1, JsonIndent)
                   \o <<IF v.t = "map" THEN "}" ELSE "]">>]

-----------------------------------------------------------------------------
(* Diagnostics *)

Diag(level, tag, path, n) == [level |-> level, tag |-> tag, path |-> path, n |-> n]

HasDiag(l, level, tag) == \E i \in 1..Len(l) : l[i].level = level /\ l[i].tag = tag
HasLevel(l, level) == \E i \in 1..Len(l) : l[i].level = level
DiagsFor(l, tag, path) == {i \in 1..Len(l) : l[i].tag = tag /\ l[i].path = path}

-----------------------------------------------------------------------------
(* PreBuild *)

\* setupConfig: the constructor's body, exceptions caught inside
setupConfig(f) ==
    IF ~existsSync(f, DATA_DIR)
    THEN LET made == mkdirSync(f, DATA_DIR) IN
         [fs |-> made.fs,
          log |-> <<Diag("INFO", "CreatingDataDirectory", DATA_DIR, 0)>>
                  \o (IF made.ok THEN <<>>
                      ELSE <<Diag("ERROR", "FailedToSetupConfiguration", DATA_DIR, 0)>>)]
    ELSE [fs |-> f, log |-> <<>>]

\* processYamlToJson, lines 94-96
ensureDataDir(f) ==
    IF ~existsSync(f, DATA_DIR) THEN mkdirSync(f, DATA_DIR) ELSE [ok |-> TRUE, fs |-> f]

ConfigMissingNever(f) == FALSE
\* processYamlToJson, the guard of lines 98-101
ConfigMissing(f) == ~existsSync(f, CONFIG_DIR)

\* processDir, lines 107-110: the destination directory is ensured, the source listed
processDirEnter(f, srcDir, destDir, ord) ==
    LET made == IF ~existsSync(f, destDir) THEN mkdirSync(f, destDir)
                ELSE [ok |-> TRUE, fs |-> f]
        listed == IF made.ok THEN readdirSync(made.fs, srcDir, ord)
                  ELSE [ok |-> FALSE, entries |-> <<>>]
    IN  [ok |-> made.ok /\ listed.ok,
         fs |-> made.fs,
         frame |-> [src |-> srcDir, dest |-> destDir, entries |-> listed.entries]]

convertSkipExisting(f, srcPath, destDir, name) ==
    LET read == readFileSync(f, srcPath)
        parsed == load(read.text)
        jsonFilePath == Join(destDir, JsonFileName(name))
        written == writeFileSync(f, jsonFilePath, stringify(parsed.value))
    IN  IF read.ok /\ parsed.ok /\ written.ok /\ ~existsSync(f, jsonFilePath)
        THEN [ok |-> TRUE, fs |-> written.fs]
        ELSE [ok |-> FALSE, fs |-> f]
convertTruncateFirst(f, srcPath, destDir, name) ==
    LET jsonFilePath == Join(destDir, JsonFileName(name))
        opened == writeFileSync(f, jsonFilePath, [defined |-> TRUE, text |-> <<>>])
        read == readFileSync(opened.fs, srcPath)
        parsed == load(read.text)
        written == writeFileSync(opened.fs, jsonFilePath, stringify(parsed.value))
    IN  IF opened.ok /\ read.ok /\ parsed.ok /\ written.ok
        THEN [ok |-> TRUE, fs |-> written.fs]
        ELSE [ok |-> FALSE, fs |-> opened.fs]
\* processDir, the try block of lines 119-127
convert(f, srcPath, destDir, name) ==
    LET read == readFileSync(f, srcPath)
        parsed == load(read.text)
        jsonFilePath == Join(destDir, JsonFileName(name))
        written == writeFileSync(f, jsonFilePath, stringify(parsed.value))
    IN  IF read.ok /\ parsed.ok /\ written.ok
        THEN [ok |-> TRUE, fs |-> written.fs]
        ELSE [ok |-> FALSE, fs |-> f]

NextEntriesBreak(entries, ok) == IF ok THEN Tail(entries) ELSE <<>>
\* entries.forEach: the callback catches its own exception, the loop goes on
NextEntries(entries, ok) == Tail(entries)

PushLast(frames, frame) ==
    IF frames = <<>> THEN <<frame>> ELSE <<Head(frames)>> \o <<frame>> \o Tail(frames)
\* the recursive call processDir(srcPath, destPath) of line 116
Push(frames, frame) == <<frame>> \o frames

processRethrows(threw) == threw
\* process(), the catch of lines 151-158: nothing is thrown again
processEscapes(threw) == FALSE

StartLog == <<Diag("INFO", "StartingBuildProcess", <<>>, 0)>>
FailLog ==
    <<Diag("ERROR", "BuildProcessFailed", <<>>, 0),
      Diag("WARN", "ContinuingDespiteErrors", <<>>, 0)>>

\* an exception of mkdirSync or readdirSync unwinds every processDir call
\* and processYamlToJson, and lands in the catch of process()
Throw(f, l) ==
    /\ fs' = f
    /\ log' = l \o FailLog
    /\ phase' = "done"
    /\ stack' = <<>>
    /\ aborted' = TRUE
    /\ escaped' = (escaped \/ processEscapes(TRUE))

-----------------------------------------------------------------------------
(* The file systems a build can start from *)

Yml(key, val) == <<key, ":", SP, val>>
DocA1 == Yml("k", "1")
DocA2 == Yml("k", "2")
DocMap == Yml("k", "x") \o <<NL>> \o Yml("n", "3")
DocSeq == <<"-", SP, "1", NL, "-", SP, "x">>
DocBad == Yml("k", "1") \o <<NL, "-", SP, "2">>
DocEmpty == <<>>
StaleJson == <<"{", NL, SP, SP, "\"", "old", "\"", ":", SP, "0", NL, "}">>

File(p, mode, content) == p :> Node("file", mode, content)
Dir(p, mode) == p :> Node("dir", mode, <<>>)

Src(names) == CONFIG_DIR \o names
Dst(names) == DATA_DIR \o names

\* config/sub/deep
DeepTrees ==
    {EmptyFs, Dir(Src(<< <<"sub">>, <<"deep">> >>), "none")}
    \cup {Dir(Src(<< <<"sub">>, <<"deep">> >>), "rw") @@ e :
            e \in {EmptyFs, File(Src(<< <<"sub">>, <<"deep">>, <<"e", "yml">> >>), "rw", DocA2)}}

\* config/sub
SubTrees ==
    {EmptyFs}
    \cup {Dir(Src(<< <<"sub">> >>), "rw") @@ c @@ o @@ d :
            c \in {EmptyFs} \cup {File(Src(<< <<"sub">>, <<"c", "yaml">> >>), "rw", doc) :
                                    doc \in {DocSeq, DocEmpty}},
            o \in {File(Src(<< <<"sub">>, <<"yml">> >>), "rw", DocA1),
                   (Src(<< <<"sub">>, <<"l", "yml">> >>) :> Node("other", "rw", <<>>))},
            d \in DeepTrees}

\* config
SourceTrees ==
    {EmptyFs, Dir(CONFIG_DIR, "none")}
    \cup {Dir(CONFIG_DIR, "rw") @@ File(Src(<< <<"b", "txt">> >>), "rw", DocA1) @@ a @@ b @@ s :
            a \in {EmptyFs, File(Src(<< <<"a", "yml">> >>), "none", DocA1)}
                  \cup {File(Src(<< <<"a", "yml">> >>), "rw", doc) : doc \in {DocA1, DocBad}},
            b \in {EmptyFs, File(Src(<< <<"a", "yaml">> >>), "rw", DocMap)},
            s \in SubTrees}

\* data/sub
DestSubTrees ==
    {EmptyFs, Dir(Dst(<< <<"sub">> >>), "ro"),
     File(Dst(<< <<"sub">> >>), "rw", StaleJson)}
    \cup {Dir(Dst(<< <<"sub">> >>), "rw") @@ c :
            c \in {EmptyFs, File(Dst(<< <<"sub">>, <<"c", "json">> >>), "rw", StaleJson)}}

\* data, and the script directory above both trees
DestTrees ==
    {Dir(BaseDir, "rw"), Dir(BaseDir, "ro")}
    \cup {Dir(BaseDir, "rw") @@ Dir(DATA_DIR, "rw")
          @@ File(Dst(<< <<"z", "json">> >>), "rw", StaleJson) @@ a @@ s :
            a \in {EmptyFs, Dir(Dst(<< <<"a", "json">> >>), "rw")}
                  \cup {File(Dst(<< <<"a", "json">> >>), m, StaleJson) : m \in {"rw", "ro"}},
            s \in DestSubTrees}

InitialFileSystems == {d @@ s : d \in DestTrees, s \in SourceTrees}

Init ==
    /\ fs \in InitialFileSystems
    /\ order \in {"asc", "desc"}
    /\ phase = "new"
    /\ stack = <<>>
    /\ processedCount = 0
    /\ log = <<>>
    /\ prevLog = <<>>
    /\ runs = 0
    /\ escaped = FALSE
    /\ aborted = FALSE
    /\ visited = <<>>
    /\ converted = <<>>
    /\ fsNew = fs
    /\ fsStart = fs

\* new PreBuild()
Construct ==
    /\ phase = "new"
    /\ fs' = setupConfig(fs).fs
    /\ log' = setupConfig(fs).log
    /\ phase' = "ready"
    /\ UNCHANGED <<order, stack, processedCount, prevLog, runs, escaped, aborted,
                   visited, converted, fsNew, fsStart>>

\* process(): up to the first processDir call of line 137
Process ==
    /\ phase \in {"ready", "done"}
    /\ runs < MaxRuns
    /\ runs' = runs + 1
    /\ prevLog' = log
    /\ fsStart' = fs
    /\ visited' = <<>>
    /\ converted' = <<>>
    /\ processedCount' = 0
    /\ UNCHANGED <<order, fsNew>>
    /\ LET ensured == ensureDataDir(fs) IN
       IF ~ensured.ok THEN Throw(ensured.fs, StartLog)
       ELSE IF ConfigMissing(ensured.fs)
       THEN /\ fs' = ensured.fs
            /\ log' = StartLog
                      \o <<Diag("WARN", "ConfigDirectoryNotFound", CONFIG_DIR, 0),
                           Diag("INFO", "BuildProcessCompleted", <<>>, 0)>>
            /\ phase' = "done"
            /\ stack' = <<>>
            /\ aborted' = FALSE
            /\ UNCHANGED escaped
       ELSE LET entered == processDirEnter(ensured.fs, CONFIG_DIR, DATA_DIR, order) IN
            IF ~entered.ok THEN Throw(entered.fs, StartLog)
            ELSE /\ fs' = entered.fs
                 /\ log' = StartLog
                 /\ phase' = "walking"
                 /\ stack' = <<entered.frame>>
                 /\ aborted' = FALSE
                 /\ UNCHANGED escaped

Top == Head(stack)
Entry == Head(Top.entries)
HasEntry == phase = "walking" /\ stack # <<>> /\ Top.entries # <<>>

\* the callback on a directory entry: line 116 and the callee's lines 107-110
VisitDirectory ==
    /\ HasEntry
    /\ Entry.kind = "dir"
    /\ visited' = Append(visited, Join(Top.src, Entry.name))
    /\ UNCHANGED <<order, processedCount, prevLog, runs, converted, fsNew, fsStart>>
    /\ LET entered == processDirEnter(fs, Join(Top.src, Entry.name),
                                      Join(Top.dest, Entry.name), order)
           rest == [Top EXCEPT !.entries = Tail(@)]
       IN IF ~entered.ok THEN Throw(entered.fs, log)
          ELSE /\ fs' = entered.fs
               /\ stack' = Push(<<rest>> \o Tail(stack), entered.frame)
               /\ UNCHANGED <<log, phase, aborted, escaped>>

\* the callback on a regular file named *.yml or *.yaml: lines 117-133
VisitYaml ==
    /\ HasEntry
    /\ Entry.kind # "dir"
    /\ Entry.kind = "file" /\ IsYamlName(Entry.name)
    /\ LET srcPath == Join(Top.src, Entry.name)
           done == convert(fs, srcPath, Top.dest, Entry.name)
       IN /\ fs' = done.fs
          /\ visited' = Append(visited, srcPath)
          /\ converted' = IF done.ok THEN Append(converted, srcPath) ELSE converted
          /\ processedCount' = IF done.ok THEN processedCount + 1 ELSE processedCount
          /\ log' = Append(log,
                       IF done.ok
                       THEN Diag("INFO", "Converted", srcPath, 0)
                       ELSE Diag("ERROR", "FailedToProcess", srcPath, 0))
          /\ stack' = <<[Top EXCEPT !.entries = NextEntries(@, done.ok)]>> \o Tail(stack)
    /\ UNCHANGED <<order, phase, prevLog, runs, escaped, aborted, fsNew, fsStart>>

\* the callback on any other entry: neither branch of lines 115-117 is taken
VisitOther ==
    /\ HasEntry
    /\ Entry.kind # "dir"
    /\ ~(Entry.kind = "file" /\ IsYamlName(Entry.name))
    /\ visited' = Append(visited, Join(Top.src, Entry.name))
    /\ stack' = <<[Top EXCEPT !.entries = Tail(@)]>> \o Tail(stack)
    /\ UNCHANGED <<fs, order, phase, processedCount, log, prevLog, runs, escaped,
                   aborted, converted, fsNew, fsStart>>

\* forEach is through: processDir returns to its caller
ReturnFromDir ==
    /\ phase = "walking"
    /\ stack # <<>>
    /\ Top.entries = <<>>
    /\ stack' = Tail(stack)
    /\ UNCHANGED <<fs, order, phase, processedCount, log, prevLog, runs, escaped,
                   aborted, visited, converted, fsNew, fsStart>>

\* lines 139-141 and 150: the walk is over
Complete ==
    /\ phase = "walking"
    /\ stack = <<>>
    /\ log' = log \o <<Diag("INFO", "ConversionCompleted", <<>>, processedCount),
                       Diag("INFO", "BuildProcessCompleted", <<>>, 0)>>
    /\ phase' = "done"
    /\ UNCHANGED <<fs, order, stack, processedCount, prevLog, runs, escaped, aborted,
                   visited, converted, fsNew, fsStart>>

Next ==
    \/ Construct
    \/ Process
    \/ VisitDirectory
    \/ VisitYaml
    \/ VisitOther
    \/ ReturnFromDir
    \/ Complete

Spec == Init /\ [][Next]_vars

-----------------------------------------------------------------------------
(* What the properties speak of *)

Range(q) == {q[i] : i \in 1..Len(q)}

Finished == phase = "done" /\ runs >= 1

\* dest/<rel> of source/<rel>
Mirror(p) == DATA_DIR \o SubSeq(p, Len(CONFIG_DIR) + 1, Len(p))

\* dest/<rel>/<name>.json of source/<rel>/<name>.yml or <name>.yaml
JsonCounterpart(p) ==
    Join(Mirror(Parent(p)), Append(SubSeq(Base(p), 1, Len(Base(p)) - 1), "json"))

SourceEntries(f) == {p \in DOMAIN f : IsUnder(p, CONFIG_DIR)}
YamlFiles(f) ==
    {p \in SourceEntries(f) : f[p].kind = "file" /\ Base(p)[Len(Base(p))] \in {"yml", "yaml"}
                              /\ Len(Base(p)) >= 2}
NonYamlFiles(f) == {p \in SourceEntries(f) : f[p].kind = "file"} \ YamlFiles(f)
SourceDirs(f) == {p \in SourceEntries(f) : f[p].kind = "dir"}
JsonFilesIn(f) ==
    {p \in DOMAIN f : IsUnder(p, DATA_DIR) /\ f[p].kind = "file"
                      /\ Base(p)[Len(Base(p))] = "json"}

\* The documents that hold a value, and the JSON text each must become
ExpectedJson(doc) ==
    CASE doc = DocA1 -> <<"{", NL, SP, SP, "\"", "k", "\"", ":", SP, "1", NL, "}">>
      [] doc = DocA2 -> <<"{", NL, SP, SP, "\"", "k", "\"", ":", SP, "2", NL, "}">>
      [] doc = DocMap -> <<"{", NL, SP, SP, "\"", "k", "\"", ":", SP, "\"", "x", "\"", ",", NL,
                           SP, SP, "\"", "n", "\"", ":", SP, "3", NL, "}">>
      [] doc = DocSeq -> <<"[", NL, SP, SP, "1", ",", NL, SP, SP, "\"", "x", "\"", NL, "]">>
      [] OTHER -> <<"no JSON text">>
ValueDocs == {DocA1, DocA2, DocMap, DocSeq}

\* the destination of p can be written: it is a writable file, or it can be created
DestWritable(f, p) ==
    LET t == JsonCounterpart(p)
        d == Parent(t)
    IN  IF t \in DOMAIN f THEN f[t].kind = "file" /\ f[t].mode = "rw"
        ELSE d \notin DOMAIN f \/ (f[d].kind = "dir" /\ f[d].mode = "rw")

\* p is readable, holds a well-formed document with a value, and has a writable destination
Convertible(f, p) ==
    /\ f[p].mode # "none"
    /\ f[p].content \in ValueDocs
    /\ DestWritable(f, p)

\* every source directory can be listed and its destination exists or can be made
DirsOk(f) ==
    \A d \in {CONFIG_DIR} \cup SourceDirs(f) :
        /\ f[d].mode # "none"
        /\ IF Mirror(d) \in DOMAIN f THEN f[Mirror(d)].kind = "dir"
           ELSE mkdirSync(f, Mirror(d)).ok

IndexIn(q, x) == CHOOSE i \in 1..Len(q) : q[i] = x

-----------------------------------------------------------------------------
C2_NoWriteAtAll ==
    (Finished /\ ~existsSync(fsNew, CONFIG_DIR)) =>
        /\ processedCount = 0
        /\ HasLevel(log, "WARN")
        /\ fs = fsNew

(* C2 amended: with no source root, nothing is converted, a warning is      *)
(* emitted (the config-not-found warning, and no error, whenever the        *)
(* destination root exists afterwards), and the only write is the creation  *)
(* of the destination root when it was missing.                             *)
C2_OnlyDataDirCreated ==
    (Finished /\ ~existsSync(fsNew, CONFIG_DIR)) =>
        /\ processedCount = 0
        /\ ~HasDiag(log, "INFO", "Converted")
        /\ HasLevel(log, "WARN")
        /\ existsSync(fs, DATA_DIR) =>
             (HasDiag(log, "WARN", "ConfigDirectoryNotFound") /\ ~HasLevel(log, "ERROR"))
        /\ \A p \in DOMAIN fsNew : p \in DOMAIN fs /\ fs[p] = fsNew[p]
        /\ (DOMAIN fs) \ (DOMAIN fsNew) \subseteq {DATA_DIR}
        /\ \A p \in (DOMAIN fs) \ (DOMAIN fsNew) : fs[p] = Node("dir", "rw", <<>>)

\* no source root, and the destination root was created
C2_Witness ==
    /\ Finished /\ ~existsSync(fsNew, CONFIG_DIR)
    /\ ~existsSync(fsNew, DATA_DIR) /\ IsDir(fs, DATA_DIR)
    /\ HasDiag(log, "WARN", "ConfigDirectoryNotFound")

(* C3 as stated: from an empty destination, a tree of N valid YAML files    *)
(* and M other files leaves exactly N JSON files, and no counterpart of any *)
(* of the M files.                                                          *)
C3_ExactlyNJsonFiles ==
    (/\ Finished /\ runs = 1 /\ ~aborted
     /\ existsSync(fsStart, CONFIG_DIR)
     /\ ~existsSync(fsNew, DATA_DIR)
     /\ \A p \in YamlFiles(fsStart) : Convertible(fsStart, p)) =>
        /\ Cardinality(JsonFilesIn(fs)) = Cardinality(YamlFiles(fsStart))
        /\ \A q \in NonYamlFiles(fsStart) : ~existsSync(fs, Mirror(q))

(* C4 as stated: after a run, every converted YAML file has its .json       *)
(* counterpart, under existing directories, holding the 2-space-indented    *)
(* JSON text of that file's value.                                          *)
C4_CounterpartHoldsValue ==
    Finished =>
        \A p \in Range(converted) :
            LET t == JsonCounterpart(p) IN
            /\ IsFile(fs, t)
            /\ \A k \in 1..(Len(t) - 1) : IsDir(fs, SubSeq(t, 1, k))
            /\ fs[t].content = ExpectedJson(fsStart[p].content)

(* C5: no exception leaves the constructor or process(); a failed setup and *)
(* a failed walk are each logged as an error.                               *)
C5_NothingEscapes ==
    /\ ~escaped
    /\ (phase = "ready" /\ ~existsSync(fs, DATA_DIR)) =>
          HasDiag(log, "ERROR", "FailedToSetupConfiguration")
    /\ (Finished /\ aborted) =>
          /\ HasDiag(log, "ERROR", "BuildProcessFailed")
          /\ stack = <<>>

\* a walk ended by an exception thrown inside a nested processDir call
C5_Witness ==
    /\ Finished /\ aborted /\ ~escaped
    /\ visited # <<>>
    /\ fsStart[visited[Len(visited)]].kind = "dir"

\* what a run reports: its conversions and its final count
Report(l) == SelectSeq(l, LAMBDA d : d.tag \in {"ConversionCompleted", "Converted"})

(* C6: the second of two runs leaves the file system as the first left it   *)
(* and makes the same report.                                               *)
C6_Idempotent ==
    (Finished /\ runs >= 2) =>
        /\ fs = fsStart
        /\ Report(log) = Report(prevLog)

\* a second run after a first that wrote files
C6_Witness ==
    /\ Finished /\ runs >= 2
    /\ Len(converted) >= 2
    /\ fsStart # fsNew

(* C7: right after a conversion, the destination file holds the JSON text   *)
(* of the source's value and nothing else, whatever it held before.         *)
C7_FullyReplaced ==
    (log # <<>> /\ log[Len(log)].tag = "Converted") =>
        LET p == log[Len(log)].path IN
        /\ IsFile(fs, JsonCounterpart(p))
        /\ fs[JsonCounterpart(p)].content = ExpectedJson(fs[p].content)

\* a destination file that existed with other content has just been replaced
C7_Witness ==
    /\ log # <<>> /\ log[Len(log)].tag = "Converted"
    /\ LET t == JsonCounterpart(log[Len(log)].path) IN
       /\ IsFile(fsStart, t)
       /\ fsStart[t].content = StaleJson
       /\ fs[t].content # StaleJson

(* C8 as stated: a source directory with no YAML file beneath it gets no    *)
(* counterpart in the destination.                                          *)
C8_NoDirWithoutYaml ==
    (Finished /\ ~aborted) =>
        \A d \in SourceDirs(fsStart) :
            (\A y \in YamlFiles(fsStart) : ~IsUnder(y, d)) =>
                (existsSync(fs, Mirror(d)) => existsSync(fsStart, Mirror(d)))

(* C9 as stated: with a source root, every run visits every entry and ends  *)
(* with the completion diagnostic.                                          *)
C9_AlwaysCompletes ==
    (Finished /\ existsSync(fsStart, CONFIG_DIR)) =>
        /\ HasDiag(log, "INFO", "ConversionCompleted")
        /\ Range(visited) = SourceEntries(fsStart)

DepthFirst(q, f) ==
    \A i \in 1..Len(q) :
        f[q[i]].kind = "dir" =>
            LET below == {j \in 1..Len(q) : IsUnder(q[j], q[i])} IN
            below = (i + 1)..(i + Cardinality(below))

(* C9 amended: with a source root, a run in which no directory operation    *)
(* throws visits every entry exactly once, depth first, and ends with the   *)
(* completion diagnostic and the count; a run stops short only when the     *)
(* source root is absent or mkdirSync or readdirSync throws.                *)
C9_CompletesUnlessThrow ==
    /\ (Finished /\ existsSync(fsStart, CONFIG_DIR) /\ ~aborted) =>
          /\ Range(visited) = SourceEntries(fsStart)
          /\ Len(visited) = Cardinality(SourceEntries(fsStart))
          /\ DepthFirst(visited, fsStart)
          /\ \E i \in 1..Len(log) : log[i].tag = "ConversionCompleted"
                                    /\ log[i].n = processedCount
    /\ (Finished /\ aborted) => ~HasDiag(log, "INFO", "ConversionCompleted")
    /\ (Finished /\ ~existsSync(fsStart, CONFIG_DIR) /\ ~aborted) => visited = <<>>
    /\ phase = "walking" => DepthFirst(visited, fsStart)

\* a completed walk through a subdirectory that had siblings left to visit
C9_Witness ==
    /\ Finished /\ ~aborted
    /\ HasDiag(log, "INFO", "ConversionCompleted")
    /\ \E i \in 1..Len(visited) :
         /\ fsStart[visited[i]].kind = "dir"
         /\ \E j \in 1..Len(visited) : IsUnder(visited[j], visited[i])
         /\ \E k \in (i + 1)..Len(visited) : Parent(visited[k]) = Parent(visited[i])

(* C10: the source tree never changes, nothing is ever deleted, no entry    *)
(* changes its kind, and a destination file keeps its content unless it is  *)
(* the .json counterpart of a file this run converted.                      *)
C10_Frame ==
    /\ \A p \in DOMAIN fsNew : p \in DOMAIN fs /\ fs[p].kind = fsNew[p].kind
    /\ \A p \in DOMAIN fsStart : p \in DOMAIN fs
    /\ \A p \in (DOMAIN fs) \cup (DOMAIN fsNew) :
         (p = CONFIG_DIR \/ IsUnder(p, CONFIG_DIR)) =>
            (p \in DOMAIN fs /\ p \in DOMAIN fsNew /\ fs[p] = fsNew[p])
    /\ \A p \in DOMAIN fsStart :
         (fsStart[p].kind = "file" /\ p \notin {JsonCounterpart(q) : q \in Range(converted)}) =>
            fs[p] = fsStart[p]

\* a stale output and the destination of a failed conversion, both kept, next to a conversion
C10_Witness ==
    /\ Finished /\ converted # <<>>
    /\ \E b \in YamlFiles(fsStart) \ Range(converted) :
         /\ IsFile(fsStart, JsonCounterpart(b))
         /\ fs[JsonCounterpart(b)].content = StaleJson
    /\ IsFile(fs, Dst(<< <<"z", "json">> >>))

====
